---------------------------- MODULE Spec2Model ----------------------------
(***************************************************************************)
(* USB_LED: an LED is pulse-width modulated from the USB traffic seen on   *)
(* /dev/usbmon0.  The model follows the newest revision of the program     *)
(* (Config, UsbMon, Raspi, generate_led_pwm, main).                        *)
(*                                                                         *)
(* Config::calculate_durations works in IEEE-754 binary64.  Its operations *)
(* are modelled bit-exactly: a double is a record [m, e] standing for      *)
(* m * 2^e with a 53 bit significand m (or m = 0), and m is kept as a      *)
(* little-endian sequence of 15 bit limbs.  Every value the program forms  *)
(* here is finite, non-negative and normal.                                *)
(***************************************************************************)
EXTENDS Integers, Sequences, FiniteSets, TLC

(***************************************************************************)
(* Natural numbers of arbitrary size (limb sequences, least limb first,    *)
(* no leading zero limb; zero is the empty sequence).                      *)
(***************************************************************************)
LIMB_BITS == 15

BASE == 2 ^ LIMB_BITS

SIGNIFICAND_BITS == 53

RECURSIVE BigNorm(_)
BigNorm(s) ==
    IF s = <<>> THEN <<>>
    ELSE IF s[Len(s)] = 0 THEN BigNorm(SubSeq(s, 1, Len(s) - 1))
    ELSE s

RECURSIVE BigFromInt(_)
BigFromInt(n) ==
    IF n = 0 THEN <<>> ELSE <<n % BASE>> \o BigFromInt(n \div BASE)

RECURSIVE BigToInt(_)
BigToInt(s) ==
    IF s = <<>> THEN 0 ELSE Head(s) + BASE * BigToInt(Tail(s))

LimbHead(s) == IF s = <<>> THEN 0 ELSE Head(s)

LimbTail(s) == IF s = <<>> THEN <<>> ELSE Tail(s)

RECURSIVE BigAddC(_, _, _)
BigAddC(a, b, c) ==
    IF a = <<>> /\ b = <<>>
    THEN (IF c = 0 THEN <<>> ELSE <<c>>)
    ELSE LET x == LimbHead(a) + LimbHead(b) + c
         IN  <<x % BASE>> \o BigAddC(LimbTail(a), LimbTail(b), x \div BASE)

BigAdd(a, b) == BigAddC(a, b, 0)

\* a - b - borrow, for a >= b + borrow
RECURSIVE BigSubB(_, _, _)
BigSubB(a, b, borrow) ==
    IF a = <<>> THEN <<>>
    ELSE LET x == Head(a) - LimbHead(b) - borrow
         IN  IF x < 0
             THEN <<x + BASE>> \o BigSubB(Tail(a), LimbTail(b), 1)
             ELSE <<x>> \o BigSubB(Tail(a), LimbTail(b), 0)

BigSub(a, b) == BigNorm(BigSubB(a, b, 0))

\* a * k + c, for 0 <= k < BASE
RECURSIVE BigMulSmallC(_, _, _)
BigMulSmallC(a, k, c) ==
    IF a = <<>> THEN (IF c = 0 THEN <<>> ELSE <<c>>)
    ELSE LET x == Head(a) * k + c
         IN  <<x % BASE>> \o BigMulSmallC(Tail(a), k, x \div BASE)

BigMulSmall(a, k) == BigNorm(BigMulSmallC(a, k, 0))

RECURSIVE BigMul(_, _)
BigMul(a, b) ==
    IF a = <<>> \/ b = <<>> THEN <<>>
    ELSE LET rest == BigMul(a, Tail(b))
         IN  BigAdd(BigMulSmall(a, Head(b)),
                    IF rest = <<>> THEN <<>> ELSE <<0>> \o rest)

\* quotient and remainder of a by d, for 0 < d < 2 * BASE
RECURSIVE BigDivSmall(_, _)
BigDivSmall(a, d) ==
    IF a = <<>> THEN [q |-> <<>>, r |-> 0]
    ELSE LET hi == BigDivSmall(Tail(a), d)
             x  == hi.r * BASE + Head(a)
         IN  [q |-> BigNorm(<<x \div d>> \o hi.q), r |-> x % d]

RECURSIVE IntBitLen(_)
IntBitLen(n) == IF n = 0 THEN 0 ELSE 1 + IntBitLen(n \div 2)

BigBitLen(a) ==
    IF a = <<>> THEN 0
    ELSE LIMB_BITS * (Len(a) - 1) + IntBitLen(a[Len(a)])

Zeros(n) == [i \in 1..n |-> 0]

\* a * 2^k
BigShl(a, k) ==
    IF a = <<>> THEN <<>>
    ELSE Zeros(k \div LIMB_BITS) \o BigMulSmall(a, 2 ^ (k % LIMB_BITS))

\* floor(a / 2^k)
BigShr(a, k) ==
    IF Len(a) <= k \div LIMB_BITS THEN <<>>
    ELSE BigDivSmall(SubSeq(a, (k \div LIMB_BITS) + 1, Len(a)),
                     2 ^ (k % LIMB_BITS)).q

BigOdd(a) == a # <<>> /\ Head(a) % 2 = 1

\* a mod 2^k # 0
BigLowBitsSet(a, k) == BigShl(BigShr(a, k), k) # a

(***************************************************************************)
(* IEEE-754 binary64, round to nearest, ties to even.                      *)
(***************************************************************************)
DblZero == [m |-> <<>>, e |-> 0]

\* the double nearest to n * 2^e (plus a non-zero fraction of the last unit
\* of n when sticky is set; n then has more than 54 bits)
DblRound(n, e, sticky) ==
    IF n = <<>> THEN DblZero
    ELSE LET len == BigBitLen(n)
         IN  IF len <= SIGNIFICAND_BITS
             THEN [m |-> BigShl(n, SIGNIFICAND_BITS - len),
                   e |-> e - (SIGNIFICAND_BITS - len)]
             ELSE LET shift == len - SIGNIFICAND_BITS
                      q     == BigShr(n, shift)
                      guard == BigOdd(BigShr(n, shift - 1))
                      rest  == sticky \/ BigLowBitsSet(n, shift - 1)
                      up    == guard /\ (rest \/ BigOdd(q))
                      r     == IF up THEN BigAdd(q, <<1>>) ELSE q
                  IN  IF BigBitLen(r) > SIGNIFICAND_BITS
                      THEN [m |-> BigShr(r, 1), e |-> e + shift + 1]
                      ELSE [m |-> r, e |-> e + shift]

\* static_cast<double>(n) of an integer 0 <= n < 2^31
DblFromInt(n) == DblRound(BigFromInt(n), 0, FALSE)

\* x * y
DblMul(x, y) == DblRound(BigMul(x.m, y.m), x.e + y.e, FALSE)

\* double(a) / double(b) for integers a >= 0, 0 < b < 2 * BASE
DblDivInt(a, b) ==
    LET s  == 64 + IntBitLen(b)
        qr == BigDivSmall(BigShl(BigFromInt(a), s), b)
    IN  DblRound(qr.q, -s, qr.r # 0)

\* 1.0 - x, for 0 <= x <= 1
DblOneMinus(x) ==
    IF x.m = <<>> THEN DblFromInt(1)
    ELSE DblRound(BigSub(BigShl(<<1>>, -x.e), x.m), x.e, FALSE)

\* static_cast<integer>(x): truncation toward zero
DblTrunc(x) ==
    IF x.e >= 0 THEN BigToInt(BigShl(x.m, x.e))
    ELSE BigToInt(BigShr(x.m, -x.e))

(***************************************************************************)
(* Bounds of the model.                                                    *)
(***************************************************************************)
\* clock ticks (of the high resolution clock) per millisecond
TicksPerMs == 2

\* largest extra delay (ticks) of one read attempt beyond its wait
MaxJitter == 1

\* accumulated_bytes is not raised beyond this
MaxAcc == 4

\* largest length field of a record
MaxLength == 2

\* byte counts handed to calculate_durations when it is checked alone
MaxBytes == 5

\* largest per-period rate when calculate_durations is checked alone
MaxRate == 4

\* largest per-period minimum rate when calculate_durations is checked alone
MaxMinRate == 1

(***************************************************************************)
(* Config                                                                  *)
(***************************************************************************)
\* cvt any duration to seconds: duration_cast of a millisecond count
to_sec(ms) == DblDivInt(ms, 1000)

\* multiply_duration with the product rounded up, not truncated
multiply_duration_rounding_up(d, ratio) ==
    LET product == DblMul(DblFromInt(d), ratio)
    IN  IF DblFromInt(DblTrunc(product)) = product
        THEN DblTrunc(product)
        ELSE DblTrunc(product) + 1

\* multiply a non double duration by a double
multiply_duration(d, ratio) == DblTrunc(DblMul(DblFromInt(d), ratio))

\* "-off value%": value * (1.0 / 100.0)
parse_value_percent(value) == DblMul(DblFromInt(value), DblDivInt(1, 100))

\* std::clamp, defined for lo <= hi
clamp(v, lo, hi) == IF v < lo THEN lo ELSE IF hi < v THEN hi ELSE v

\* the configuration as parse_arguments returns it; off_percent is the
\* argument of -off, kept beside the double it was converted to
MakeConfig(logging, invert, max, min, periode, percent) ==
    [logging           |-> logging,
     invert            |-> invert,
     max_transfer_rate |-> max,
     min_transfer_rate |-> min,
     pwm_periode       |-> periode,
     off_percent       |-> percent,
     off_periode_ratio |-> parse_value_percent(percent)]

\* convert the transfer rates to the given periode (uint64 *= double)
calculate_periode_values(c) ==
    [c EXCEPT
       !.max_transfer_rate =
           DblTrunc(DblMul(DblFromInt(@), to_sec(c.pwm_periode))),
       !.min_transfer_rate =
           DblTrunc(DblMul(DblFromInt(@), to_sec(c.pwm_periode)))]

\* max_rate > min_rate: the division in calculate_durations is defined
ValidConfig(c) == c.max_transfer_rate > c.min_transfer_rate

\* the durations calculate_durations forms from the ratio of the clamped
\* byte count
durations_of_ratio(c, ratio) ==
    LET on_ration == DblMul(ratio, DblOneMinus(c.off_periode_ratio))
    IN  <<multiply_duration(c.pwm_periode, on_ration),
          multiply_duration(c.pwm_periode, DblOneMinus(on_ration))>>

\* calculate_durations with the ratio taken from zero, not from min_rate
calculate_durations_from_zero(c, bytes) ==
    LET clamped == clamp(bytes, c.min_transfer_rate, c.max_transfer_rate)
    IN  durations_of_ratio(c, DblDivInt(clamped, c.max_transfer_rate))

\* calculate_durations with the ratio measured down from max_rate
calculate_durations_inverted(c, bytes) ==
    LET clamped == clamp(bytes, c.min_transfer_rate, c.max_transfer_rate)
    IN  durations_of_ratio(c, DblDivInt(c.max_transfer_rate - clamped,
                              c.max_transfer_rate - c.min_transfer_rate))

\* calculate the high and low duration of the led, for a valid configuration
calculate_durations(c, bytes) ==
    LET clamped == clamp(bytes, c.min_transfer_rate, c.max_transfer_rate)
    IN  durations_of_ratio(c, DblDivInt(clamped - c.min_transfer_rate,
                              c.max_transfer_rate - c.min_transfer_rate))

\* static_cast<integer>(NaN) is undefined: INT64_MIN on x86-64 (a negative
\* duration, which ends a wait at once), 0 on ARM
NanCasts == {-1, 0}

\* calculate_durations is undefined for other configurations.
\* max_rate == min_rate: the ratio is 0.0 / 0.0, both durations are the cast
\* of a NaN.  max_rate < min_rate: the precondition of std::clamp is broken,
\* libstdc++ returns one of its bounds, and the unsigned differences wrap to
\* a ratio of 0.0 or of 1.0.
UndefinedDurations(c) ==
    IF c.max_transfer_rate = c.min_transfer_rate
    THEN {<<n, n>> : n \in NanCasts}
    ELSE {durations_of_ratio(c, DblZero), durations_of_ratio(c, DblFromInt(1))}

(***************************************************************************)
(* State                                                                   *)
(***************************************************************************)
VARIABLES
    pc,                 \* position in main / generate_led_pwm / UsbMon
    cfg,                \* Config
    clock,              \* now(), in ticks since the cycle began (the
                        \* program only takes differences of time points,
                        \* the origin moves to the start of each cycle)
    accumulated_bytes,  \* UsbMon::accumulated_bytes
    bytes_acc,          \* generate_led_pwm: value of the last drain
    high, low,          \* generate_led_pwm: requested durations (ms)
    high_measured,      \* generate_led_pwm: elapsed HIGH phase (ms)
    low_measured,       \* generate_led_pwm: elapsed LOW phase (ms)
    tsc, last_tsc,      \* generate_led_pwm: start of this / the last cycle
    led,                \* state last requested from Raspi::set_led_state
    pin,                \* level last written to the output line
    phase,              \* which accumulate_bytes_for call is running
    acc_tsc, until,     \* accumulate_bytes_for: start and deadline
    log_line,           \* the line printed by the step just taken
    completed_bytes,    \* lengths of the 'C' records read since the drain
    attempt,            \* how the read attempt just made has ended
    calls,              \* calculate_durations alone: calls made (up to 2)
    prev_bytes,         \* calculate_durations alone: argument before last
    prev_high,          \* calculate_durations alone: on-duration before last
    fd,                 \* UsbMon::fd
    cerr,               \* the diagnostic written to cerr
    received,           \* bytes returned by the read attempts of this cycle
    prev_received,      \* bytes returned by the read attempts of the last
                        \* cycle
    unaccounted,        \* bytes returned by all read attempts so far, less
                        \* the values drained so far, less accumulated_bytes
    first_iteration     \* the loop body is executed for the first time

vars == <<pc, cfg, clock, accumulated_bytes, bytes_acc, high, low,
          high_measured, low_measured, tsc, last_tsc, led, pin, phase,
          acc_tsc, until, log_line, completed_bytes, attempt,
          calls, prev_bytes, prev_high, fd, cerr, received, prev_received,
          unaccounted, first_iteration>>

loop_vars == <<bytes_acc, high, low, high_measured, low_measured, tsc,
               last_tsc, log_line>>

mon_vars == <<accumulated_bytes, acc_tsc, until, completed_bytes, attempt>>

dur_vars == <<calls, prev_bytes, prev_high>>

open_vars == <<fd, cerr>>

cycle_vars ==
    <<received, prev_received, unaccounted, first_iteration>>

\* the command lines of the model: -max and -min in whole kbps (bytes per
\* second), -period in ms, -off in percent (the defaults are 0 for -min and
\* 10 for -off)
MaxRates == {0, 2048}

MinRates == {0, 1024}

Periods == {2}

Percents == {10}

Configs ==
    {MakeConfig(l, i, max, min, p, o) :
        l \in BOOLEAN, i \in BOOLEAN, max \in MaxRates, min \in MinRates,
        p \in Periods, o \in Percents}

\* record types of usbmon: submission, completion (callback), error
RecordTypes == {"S", "C", "E"}

Lengths == 1..MaxLength

\* results of read(fd, buffer, 64) other than the 48 byte legacy record
OtherReads == {-1, 0, 64}

NoLine == [bytes |-> -1, pwm |-> -1, h |-> -1, l |-> -1]

InitCommon ==
    /\ clock = 0
    /\ accumulated_bytes = 0
    /\ bytes_acc = 0
    /\ high = 0
    /\ low = 0
    /\ high_measured = 0
    /\ low_measured = 0
    /\ tsc = 0
    /\ last_tsc = 0
    /\ led = "Unset"
    /\ pin = "Unset"
    /\ phase = "none"
    /\ acc_tsc = 0
    /\ until = 0
    /\ log_line = NoLine
    /\ completed_bytes = 0
    /\ attempt = "none"
    /\ calls = 0
    /\ prev_bytes = 0
    /\ prev_high = 0
    /\ fd = -1
    /\ cerr = ""
    /\ received = 0
    /\ prev_received = 0
    /\ unaccounted = 0
    /\ first_iteration = TRUE

\* main has parsed its arguments
Init ==
    /\ pc = "main"
    /\ cfg \in Configs
    /\ InitCommon

(***************************************************************************)
(* main                                                                    *)
(***************************************************************************)
\* a main that has read a record before it enters the loop
main_reading_ahead ==
    /\ pc = "main"
    /\ cfg' = calculate_periode_values(cfg)
    /\ \E opened \in BOOLEAN :
          IF opened
          THEN /\ fd' = 3
               /\ pc' = "drain"
               /\ tsc' = clock
               /\ last_tsc' = clock
               /\ accumulated_bytes' = 1
               /\ UNCHANGED cerr
          ELSE /\ fd' = -1
               /\ cerr' = "Cannot open usbmon device!"
               /\ pc' = "exit"
               /\ UNCHANGED <<tsc, last_tsc, accumulated_bytes>>
    /\ UNCHANGED <<clock, led, pin, phase, bytes_acc, high, low, high_measured,
                   low_measured, log_line, acc_tsc, until, completed_bytes,
                   attempt>>
    /\ UNCHANGED dur_vars
    /\ UNCHANGED cycle_vars

\* a main that enters the loop although /dev/usbmon0 could not be opened
main_ignoring_open_failure ==
    /\ pc = "main"
    /\ cfg' = calculate_periode_values(cfg)
    /\ \E opened \in BOOLEAN :
          fd' = IF opened THEN 3 ELSE -1
    /\ pc' = "drain"
    /\ tsc' = clock
    /\ last_tsc' = clock
    /\ UNCHANGED <<clock, led, pin, phase, bytes_acc, high, low, high_measured,
                   low_measured, log_line, cerr>>
    /\ UNCHANGED mon_vars
    /\ UNCHANGED dur_vars
    /\ UNCHANGED cycle_vars

\* main after parse_arguments: calculate_periode_values, Raspi, UsbMon
\* (a diagnostic and exit(-1) when /dev/usbmon0 cannot be opened), entry of
\* generate_led_pwm
main ==
    /\ pc = "main"
    /\ cfg' = calculate_periode_values(cfg)
    /\ \E opened \in BOOLEAN :
          IF opened
          THEN /\ fd' = 3
               /\ pc' = "drain"
               /\ tsc' = clock
               /\ last_tsc' = clock
               /\ UNCHANGED cerr
          ELSE /\ fd' = -1
               /\ cerr' = "Cannot open usbmon device!"
               /\ pc' = "exit"
               /\ UNCHANGED <<tsc, last_tsc>>
    /\ UNCHANGED <<clock, led, pin, phase, bytes_acc, high, low, high_measured,
                   low_measured, log_line>>
    /\ UNCHANGED mon_vars
    /\ UNCHANGED dur_vars
    /\ UNCHANGED cycle_vars

(***************************************************************************)
(* Raspi                                                                   *)
(***************************************************************************)
\* a set_led_state that does not look at the invert flag
digitalWrite_ignoring_invert(state, inverted) ==
    IF state = "On" THEN "HIGH" ELSE "LOW"

\* the level set_led_state writes to the pin
digitalWrite(state, inverted) ==
    IF (state = "On") # inverted THEN "HIGH" ELSE "LOW"

(***************************************************************************)
(* generate_led_pwm                                                        *)
(***************************************************************************)
\* a drain that resets the accumulated value and then returns it
get_and_reset_accumulated_bytes_dropping ==
    /\ pc = "drain"
    /\ bytes_acc' = 0
    /\ accumulated_bytes' = 0
    /\ completed_bytes' = 0
    /\ log_line' = NoLine
    /\ pc' = "calc"
    /\ unaccounted' =
          unaccounted + accumulated_bytes - accumulated_bytes' - bytes_acc'
    /\ UNCHANGED <<cfg, clock, high, low, high_measured, low_measured, tsc,
                   last_tsc, led, pin, phase, acc_tsc, until, attempt>>
    /\ UNCHANGED dur_vars
    /\ UNCHANGED open_vars
    /\ UNCHANGED <<received, prev_received, first_iteration>>

\* a drain that returns the accumulated value and does not reset it
get_and_reset_accumulated_bytes_keeping ==
    /\ pc = "drain"
    /\ bytes_acc' = accumulated_bytes
    /\ log_line' = NoLine
    /\ pc' = "calc"
    /\ UNCHANGED <<cfg, clock, high, low, high_measured, low_measured, tsc,
                   last_tsc, led, pin, phase>>
    /\ UNCHANGED mon_vars
    /\ UNCHANGED dur_vars
    /\ UNCHANGED open_vars
    /\ UNCHANGED cycle_vars

\* bytes_acc = monitor.get_and_reset_accumulated_bytes()
get_and_reset_accumulated_bytes ==
    /\ pc = "drain"
    /\ bytes_acc' = accumulated_bytes
    /\ accumulated_bytes' = 0
    /\ completed_bytes' = 0
    /\ log_line' = NoLine
    /\ pc' = "calc"
    /\ UNCHANGED <<cfg, clock, high, low, high_measured, low_measured, tsc,
                   last_tsc, led, pin, phase, acc_tsc, until, attempt>>
    /\ UNCHANGED dur_vars
    /\ UNCHANGED open_vars
    /\ unaccounted' =
          unaccounted + accumulated_bytes - accumulated_bytes' - bytes_acc'
    /\ UNCHANGED <<received, prev_received, first_iteration>>

\* [high, low] = cfg.calculate_durations(bytes_acc)
call_calculate_durations ==
    /\ pc = "calc"
    /\ IF ValidConfig(cfg)
       THEN LET durations == calculate_durations(cfg, bytes_acc)
            IN  /\ high' = durations[1]
                /\ low' = durations[2]
       ELSE \E durations \in UndefinedDurations(cfg) :
               /\ high' = durations[1]
               /\ low' = durations[2]
    /\ pc' = "set_on"
    /\ UNCHANGED <<cfg, clock, bytes_acc, high_measured, low_measured, tsc,
                   last_tsc, led, pin, phase, log_line>>
    /\ UNCHANGED mon_vars
    /\ UNCHANGED dur_vars
    /\ UNCHANGED open_vars
    /\ UNCHANGED cycle_vars

\* raspi.set_led_state(On), then the call of accumulate_bytes_for(high)
set_led_state_On ==
    /\ pc = "set_on"
    /\ led' = "On"
    /\ pin' = digitalWrite("On", cfg.invert)
    /\ phase' = "high"
    /\ pc' = "acc_enter"
    /\ UNCHANGED <<cfg, clock>>
    /\ UNCHANGED loop_vars
    /\ UNCHANGED mon_vars
    /\ UNCHANGED dur_vars
    /\ UNCHANGED open_vars
    /\ UNCHANGED cycle_vars

\* a LOW phase that begins without the request to switch the LED off
set_led_state_Off_skipped ==
    /\ pc = "set_off"
    /\ phase' = "low"
    /\ pc' = "acc_enter"
    /\ UNCHANGED <<cfg, clock, led, pin>>
    /\ UNCHANGED loop_vars
    /\ UNCHANGED mon_vars
    /\ UNCHANGED dur_vars
    /\ UNCHANGED open_vars
    /\ UNCHANGED cycle_vars

\* a LOW phase that begins with a drain of its own
set_led_state_Off_draining ==
    /\ pc = "set_off"
    /\ led' = "Off"
    /\ pin' = digitalWrite("Off", cfg.invert)
    /\ phase' = "low"
    /\ accumulated_bytes' = 0
    /\ completed_bytes' = 0
    /\ pc' = "acc_enter"
    /\ UNCHANGED <<cfg, clock, acc_tsc, until, attempt>>
    /\ UNCHANGED loop_vars
    /\ UNCHANGED dur_vars
    /\ UNCHANGED open_vars
    /\ UNCHANGED cycle_vars

\* raspi.set_led_state(Off), then the call of accumulate_bytes_for(low)
set_led_state_Off ==
    /\ pc = "set_off"
    /\ led' = "Off"
    /\ pin' = digitalWrite("Off", cfg.invert)
    /\ phase' = "low"
    /\ pc' = "acc_enter"
    /\ UNCHANGED <<cfg, clock>>
    /\ UNCHANGED loop_vars
    /\ UNCHANGED mon_vars
    /\ UNCHANGED dur_vars
    /\ UNCHANGED open_vars
    /\ UNCHANGED cycle_vars

\* a loop body that is left after the log line
log_and_next_once ==
    /\ pc = "log"
    /\ log_line' = NoLine
    /\ pc' = "exit"
    /\ UNCHANGED <<cfg, clock, led, pin, phase, bytes_acc, high, low,
                   high_measured, low_measured, tsc, last_tsc>>
    /\ UNCHANGED mon_vars
    /\ UNCHANGED dur_vars
    /\ UNCHANGED open_vars
    /\ UNCHANGED cycle_vars

\* the optional log line and last_tsc = exchange(tsc, now()); the locals of
\* the loop body end here, the next cycle begins at the new time origin
log_and_next ==
    /\ pc = "log"
    /\ log_line' = IF cfg.logging
                   THEN [bytes |-> bytes_acc, pwm |-> tsc - last_tsc,
                         h |-> high_measured, l |-> low_measured]
                   ELSE NoLine
    /\ last_tsc' = tsc - clock
    /\ tsc' = clock - clock
    /\ clock' = 0
    /\ bytes_acc' = 0
    /\ high' = 0
    /\ low' = 0
    /\ high_measured' = 0
    /\ low_measured' = 0
    /\ prev_received' = received
    /\ received' = 0
    /\ first_iteration' = FALSE
    /\ UNCHANGED unaccounted
    /\ pc' = "drain"
    /\ UNCHANGED <<cfg, led, pin, phase>>
    /\ UNCHANGED mon_vars
    /\ UNCHANGED dur_vars
    /\ UNCHANGED open_vars

(***************************************************************************)
(* UsbMon                                                                  *)
(***************************************************************************)
\* results of select: failure, timeout, descriptor readable
SelectResults == {-1, 0, 1}

ReadResults == {48} \cup OtherReads

\* a get_transfered_bytes that counts a read of the wrong size as one byte
get_transfered_bytes_counting_short(ret, n, type, length) ==
    IF ret = -1 \/ ret = 0 THEN 0
    ELSE IF n # 48 THEN 1
    ELSE IF type # "S" /\ type # "C" THEN 0
    ELSE length

\* get the transfered byte from the last packet: the value returned for a
\* result ret of select, a result n of read, a record type and length field
get_transfered_bytes(ret, n, type, length) ==
    IF ret = -1 \/ ret = 0 THEN 0
    ELSE IF n # 48 THEN 0
    ELSE IF type # "S" /\ type # "C" THEN 0
    ELSE length

\* the duration handed to the running accumulate_bytes_for call
Requested == IF phase = "high" THEN high ELSE low

\* tsc = now(); until = tsc + dur
accumulate_bytes_for_enter ==
    /\ pc = "acc_enter"
    /\ acc_tsc' = clock
    /\ until' = clock + Requested * TicksPerMs
    /\ pc' = "acc_loop"
    /\ UNCHANGED <<cfg, clock, led, pin, phase, accumulated_bytes,
                   completed_bytes, attempt>>
    /\ UNCHANGED loop_vars
    /\ UNCHANGED dur_vars
    /\ UNCHANGED open_vars
    /\ UNCHANGED cycle_vars

\* a loop that makes one more attempt when now() equals the deadline
accumulate_bytes_for_loop_inclusive ==
    /\ pc = "acc_loop"
    /\ clock <= until
    /\ pc' = "get"
    /\ attempt' = "none"
    /\ UNCHANGED <<cfg, clock, led, pin, phase, accumulated_bytes, acc_tsc,
                   until, completed_bytes>>
    /\ UNCHANGED loop_vars
    /\ UNCHANGED dur_vars
    /\ UNCHANGED open_vars
    /\ UNCHANGED cycle_vars

\* a loop that does not look at the deadline
accumulate_bytes_for_loop_forever ==
    /\ pc = "acc_loop"
    /\ pc' = "get"
    /\ attempt' = "none"
    /\ UNCHANGED <<cfg, clock, led, pin, phase, accumulated_bytes, acc_tsc,
                   until, completed_bytes>>
    /\ UNCHANGED loop_vars
    /\ UNCHANGED dur_vars
    /\ UNCHANGED open_vars
    /\ UNCHANGED cycle_vars

\* while (now() < until): one more attempt
accumulate_bytes_for_loop ==
    /\ pc = "acc_loop"
    /\ clock < until
    /\ pc' = "get"
    /\ attempt' = "none"
    /\ UNCHANGED <<cfg, clock, led, pin, phase, accumulated_bytes, acc_tsc,
                   until, completed_bytes>>
    /\ UNCHANGED loop_vars
    /\ UNCHANGED dur_vars
    /\ UNCHANGED open_vars
    /\ UNCHANGED cycle_vars

\* how an attempt has ended, for a result ret of select and n of read
Outcome(ret, n, type) ==
    IF ret = -1 \/ (ret = 1 /\ n = -1) THEN "failed"
    ELSE IF ret = 0 THEN "timeout"
    ELSE IF n # 48 THEN "short"
    ELSE type

\* a read attempt whose select is given the whole requested duration as its
\* timeout, not the time left
accumulate_bytes_for_attempt_whole_timeout ==
    /\ pc = "get"
    /\ \E ret \in SelectResults :
       \E n \in IF ret = 1 THEN ReadResults ELSE {0} :
       \E type \in IF ret = 1 /\ n = 48 THEN RecordTypes ELSE {"E"} :
       \E length \in IF ret = 1 /\ n = 48 THEN Lengths ELSE {0} :
       \E d \in 0..(until - acc_tsc + MaxJitter) :
          /\ ret = 0 => d >= until - acc_tsc
          /\ accumulated_bytes + get_transfered_bytes(ret, n, type, length)
                <= MaxAcc
          /\ clock' = clock + d
          /\ accumulated_bytes' =
                accumulated_bytes + get_transfered_bytes(ret, n, type, length)
          /\ completed_bytes' =
                IF ret = 1 /\ n = 48 /\ type = "C"
                THEN completed_bytes + length ELSE completed_bytes
          /\ received' =
                received + get_transfered_bytes(ret, n, type, length)
          /\ unaccounted' =
                unaccounted + get_transfered_bytes(ret, n, type, length)
                    + accumulated_bytes - accumulated_bytes'
          /\ attempt' = Outcome(ret, n, type)
    /\ pc' = "acc_loop"
    /\ UNCHANGED <<cfg, led, pin, phase, acc_tsc, until, prev_received,
                   first_iteration>>
    /\ UNCHANGED loop_vars
    /\ UNCHANGED dur_vars
    /\ UNCHANGED open_vars

\* a read attempt that assigns what get_transfered_bytes returns
accumulate_bytes_for_attempt_assigning ==
    /\ pc = "get"
    /\ \E ret \in SelectResults :
       \E n \in IF ret = 1 THEN ReadResults ELSE {0} :
       \E type \in IF ret = 1 /\ n = 48 THEN RecordTypes ELSE {"E"} :
       \E length \in IF ret = 1 /\ n = 48 THEN Lengths ELSE {0} :
       \E d \in 0..(until - clock + MaxJitter) :
          /\ ret = 0 => d >= until - clock
          /\ accumulated_bytes + get_transfered_bytes(ret, n, type, length)
                <= MaxAcc
          /\ clock' = clock + d
          /\ accumulated_bytes' =
                get_transfered_bytes(ret, n, type, length)
          /\ completed_bytes' =
                IF ret = 1 /\ n = 48 /\ type = "C"
                THEN completed_bytes + length ELSE completed_bytes
          /\ received' =
                received + get_transfered_bytes(ret, n, type, length)
          /\ unaccounted' =
                unaccounted + get_transfered_bytes(ret, n, type, length)
                    + accumulated_bytes - accumulated_bytes'
          /\ attempt' = Outcome(ret, n, type)
    /\ pc' = "acc_loop"
    /\ UNCHANGED <<cfg, led, pin, phase, acc_tsc, until, prev_received,
                   first_iteration>>
    /\ UNCHANGED loop_vars
    /\ UNCHANGED dur_vars
    /\ UNCHANGED open_vars

\* accumulated_bytes += get_transfered_bytes(until): select waits for at
\* most the time left (all of it when it times out), the attempt takes d
accumulate_bytes_for_attempt ==
    /\ pc = "get"
    /\ \E ret \in SelectResults :
       \E n \in IF ret = 1 THEN ReadResults ELSE {0} :
       \E type \in IF ret = 1 /\ n = 48 THEN RecordTypes ELSE {"E"} :
       \E length \in IF ret = 1 /\ n = 48 THEN Lengths ELSE {0} :
       \E d \in 0..(until - clock + MaxJitter) :
          /\ ret = 0 => d >= until - clock
          /\ accumulated_bytes + get_transfered_bytes(ret, n, type, length)
                <= MaxAcc
          /\ clock' = clock + d
          /\ accumulated_bytes' =
                accumulated_bytes + get_transfered_bytes(ret, n, type, length)
          /\ completed_bytes' =
                IF ret = 1 /\ n = 48 /\ type = "C"
                THEN completed_bytes + length ELSE completed_bytes
          /\ received' =
                received + get_transfered_bytes(ret, n, type, length)
          /\ unaccounted' =
                unaccounted + get_transfered_bytes(ret, n, type, length)
                    + accumulated_bytes - accumulated_bytes'
          /\ attempt' = Outcome(ret, n, type)
    /\ pc' = "acc_loop"
    /\ UNCHANGED <<cfg, led, pin, phase, acc_tsc, until, prev_received,
                   first_iteration>>
    /\ UNCHANGED loop_vars
    /\ UNCHANGED dur_vars
    /\ UNCHANGED open_vars

\* a return that does not wait for the deadline
accumulate_bytes_for_return_early ==
    /\ pc = "acc_loop"
    /\ IF phase = "high"
       THEN /\ high_measured' = (clock - acc_tsc) \div TicksPerMs
            /\ pc' = "set_off"
            /\ UNCHANGED low_measured
       ELSE /\ low_measured' = (clock - acc_tsc) \div TicksPerMs
            /\ pc' = "log"
            /\ UNCHANGED high_measured
    /\ attempt' = "none"
    /\ acc_tsc' = 0
    /\ until' = 0
    /\ UNCHANGED <<cfg, clock, led, pin, phase, bytes_acc, high, low, tsc,
                   last_tsc, log_line, accumulated_bytes, completed_bytes>>
    /\ UNCHANGED dur_vars
    /\ UNCHANGED open_vars
    /\ UNCHANGED cycle_vars

\* return duration_cast<duration_t>(now() - tsc); the locals end here
accumulate_bytes_for_return ==
    /\ pc = "acc_loop"
    /\ ~(clock < until)
    /\ IF phase = "high"
       THEN /\ high_measured' = (clock - acc_tsc) \div TicksPerMs
            /\ pc' = "set_off"
            /\ UNCHANGED low_measured
       ELSE /\ low_measured' = (clock - acc_tsc) \div TicksPerMs
            /\ pc' = "log"
            /\ UNCHANGED high_measured
    /\ attempt' = "none"
    /\ acc_tsc' = 0
    /\ until' = 0
    /\ UNCHANGED <<cfg, clock, led, pin, phase, bytes_acc, high, low, tsc,
                   last_tsc, log_line, accumulated_bytes, completed_bytes>>
    /\ UNCHANGED dur_vars
    /\ UNCHANGED open_vars
    /\ UNCHANGED cycle_vars

Next ==
    \/ main
    \/ get_and_reset_accumulated_bytes
    \/ call_calculate_durations
    \/ set_led_state_On
    \/ accumulate_bytes_for_enter
    \/ accumulate_bytes_for_loop
    \/ accumulate_bytes_for_attempt
    \/ accumulate_bytes_for_return
    \/ set_led_state_Off
    \/ log_and_next

Spec == Init /\ [][Next]_vars

\* a read attempt during which the clock moves on by a tick or more
accumulate_bytes_for_progress ==
    accumulate_bytes_for_attempt /\ clock' > clock

\* the command lines without -logging and -invert
FairConfigs == {c \in Configs : ~c.logging /\ ~c.invert}

InitFair ==
    /\ pc = "main"
    /\ cfg \in FairConfigs
    /\ InitCommon

\* the steps of accumulate_bytes_for are taken when they can be, and the
\* clock keeps advancing: of the read attempts made without end, some take
\* a tick or more
SpecFair ==
    /\ InitFair
    /\ [][Next]_vars
    /\ WF_vars(accumulate_bytes_for_enter)
    /\ WF_vars(accumulate_bytes_for_loop)
    /\ WF_vars(accumulate_bytes_for_attempt)
    /\ WF_vars(accumulate_bytes_for_return)
    /\ SF_vars(accumulate_bytes_for_progress)

\* the statements of the loop body are executed as well; the call of
\* calculate_durations is straight-line code and returns (weak fairness of
\* that step, written with its enabling condition pc = "calc")
SpecLive ==
    /\ SpecFair
    /\ WF_vars(get_and_reset_accumulated_bytes)
    /\ []<>(pc # "calc")
    /\ WF_vars(set_led_state_On)
    /\ WF_vars(set_led_state_Off)
    /\ WF_vars(log_and_next)

(***************************************************************************)
(* Config::calculate_durations alone: any valid configuration, any byte    *)
(* counts, one call after the other.                                       *)
(***************************************************************************)
DurPeriods == {10, 100}

DurPercents == {0, 10, 40, 100}

DurConfigs ==
    {MakeConfig(FALSE, FALSE, max, min, p, o) :
        min \in 0..MaxMinRate, max \in 1..MaxRate,
        p \in DurPeriods, o \in DurPercents}

InitDur ==
    /\ pc = "dur"
    /\ cfg \in {c \in DurConfigs : ValidConfig(c)}
    /\ InitCommon

calculate_durations_call ==
    /\ pc = "dur"
    /\ \E bytes \in 0..MaxBytes :
          LET durations == calculate_durations(cfg, bytes)
          IN  /\ bytes_acc' = bytes
              /\ high' = durations[1]
              /\ low' = durations[2]
    /\ prev_bytes' = bytes_acc
    /\ prev_high' = high
    /\ calls' = IF calls < 2 THEN calls + 1 ELSE calls
    /\ UNCHANGED <<pc, cfg, clock, led, pin, phase, high_measured,
                   low_measured, tsc, last_tsc, log_line>>
    /\ UNCHANGED mon_vars
    /\ UNCHANGED open_vars
    /\ UNCHANGED cycle_vars

NextDur == calculate_durations_call

SpecDur == InitDur /\ [][NextDur]_vars

(***************************************************************************)
(* Properties of the program (checked under Spec).                         *)
(***************************************************************************)
\* where the loop body holds the drained value in bytes_acc
InIteration ==
    pc \in {"calc", "set_on", "acc_enter", "acc_loop", "get", "set_off", "log"}

\* C1: what the next get_and_reset_accumulated_bytes returns is the sum of
\* the length fields of the completion ('C') records read since the last
\* drain; submission ('S') records contribute nothing (valid configuration).
C1_OnlyCompletionsCounted ==
    ValidConfig(cfg) => accumulated_bytes = completed_bytes

\* C2: a configuration with max_rate <= min_rate never gets past main: the
\* loop (drain, calculate_durations, pin writes) is not entered.
C2_InvalidConfigRejected == ~ValidConfig(cfg) => pc \in {"main", "exit"}

\* C3: a read attempt on which select or read reported a failure leaves the
\* program in its terminal error state (valid configuration).
C3_IoErrorIsTerminal ==
    (ValidConfig(cfg) /\ attempt = "failed") => pc = "exit"

\* C10: in an iteration whose drained byte count is at or below min_rate
\* (valid configuration) the LED is not switched on at any point.
C10_OffBelowMinRate ==
    (InIteration /\ ValidConfig(cfg) /\ bytes_acc <= cfg.min_transfer_rate)
        => led # "On"

(***************************************************************************)
(* Properties of Config::calculate_durations (checked under SpecDur).      *)
(***************************************************************************)
\* period * (1 - off_fraction) and period * off_fraction are whole
\* milliseconds
WholeSaturation == (cfg.pwm_periode * cfg.off_percent) % 100 = 0

\* floor of period * ((bytes - min) / (max - min)) * (1 - off_fraction) in
\* exact arithmetic, for min <= bytes <= max
ExactOn(c, bytes) ==
    (c.pwm_periode * (bytes - c.min_transfer_rate) * (100 - c.off_percent))
        \div ((c.max_transfer_rate - c.min_transfer_rate) * 100)

\* C4: the durations returned for any byte count are exact complements:
\* on + low == period.
C4_ExactComplement == calls > 0 => high + low = cfg.pwm_periode

\* C5: the durations returned for any byte count add up to the period or to
\* one millisecond less.
C5_SumWithinOneUnit ==
    calls > 0 => /\ cfg.pwm_periode - 1 <= high + low
                 /\ high + low <= cfg.pwm_periode

\* a call whose durations add up to one millisecond less than the period
C5_Witness == calls > 0 /\ high + low = cfg.pwm_periode - 1

\* C6: for a byte count at or below min_rate the durations are on == 0 and
\* low == period.
C6_OffAtOrBelowMin ==
    (calls > 0 /\ bytes_acc <= cfg.min_transfer_rate)
        => (high = 0 /\ low = cfg.pwm_periode)

\* a call with a non-zero byte count at min_rate, answered (0, period)
C6_Witness ==
    /\ calls > 0
    /\ bytes_acc > 0
    /\ bytes_acc <= cfg.min_transfer_rate
    /\ high = 0
    /\ low = cfg.pwm_periode

\* C7: for a byte count at or above max_rate the durations are
\* on == period * (1 - off_fraction) and low == period * off_fraction
\* (stated where both are whole milliseconds).
C7_SaturatedDurations ==
    (calls > 0 /\ bytes_acc >= cfg.max_transfer_rate /\ WholeSaturation)
        => /\ high * 100 = cfg.pwm_periode * (100 - cfg.off_percent)
           /\ low * 100 = cfg.pwm_periode * cfg.off_percent

\* C8: for a byte count strictly between min_rate and max_rate the
\* on-duration is period * ((bytes - min) / (max - min)) * (1 - off_fraction)
\* in whole milliseconds.
C8_LinearInterpolation ==
    (/\ calls > 0
     /\ cfg.min_transfer_rate < bytes_acc
     /\ bytes_acc < cfg.max_transfer_rate)
        => high = ExactOn(cfg, bytes_acc)

\* C9: of two calls with the same configuration, the one with the larger
\* byte count does not return the smaller on-duration.
C9_Monotonic == (calls = 2 /\ prev_bytes <= bytes_acc) => prev_high <= high

\* two calls with growing byte counts and growing on-durations
C9_Witness == calls = 2 /\ prev_bytes < bytes_acc /\ prev_high < high

\* C11: whatever byte count is given, the low duration returned is at least
\* period * off_fraction.
C11_EnforcedOffPeriod ==
    calls > 0 => low * 100 >= cfg.pwm_periode * cfg.off_percent

(***************************************************************************)
(* Properties of UsbMon and of the loop (checked under Spec).              *)
(***************************************************************************)
\* C12: get_and_reset_accumulated_bytes is one step that returns the value
\* accumulated_bytes held before it and leaves accumulated_bytes at 0; no
\* step other than a read attempt changes accumulated_bytes afterwards, so
\* a drain that follows without one returns 0.
C12_DrainReturnsAndResets ==
    [][/\ (pc = "drain" /\ pc' # "drain")
           => /\ pc' = "calc"
              /\ bytes_acc' = accumulated_bytes
              /\ accumulated_bytes' = 0
       /\ (pc # "drain" /\ pc # "get")
           => accumulated_bytes' = accumulated_bytes]_vars

\* a drain has just returned a non-zero count and left the accumulator at 0
C12_Witness ==
    /\ ValidConfig(cfg)
    /\ pc = "calc"
    /\ bytes_acc > 0
    /\ accumulated_bytes = 0

\* C13: the value an iteration has drained (and computes and logs with) is
\* what the read attempts of the whole previous iteration returned, HIGH and
\* LOW phase together: nothing of this iteration, nothing older.
C13_DrainedIsLastCycle == InIteration => bytes_acc = prev_received

\* end of an iteration that drained the non-zero count of the cycle before
\* and has itself received a different non-zero count
C13_Witness ==
    /\ ValidConfig(cfg)
    /\ pc = "log"
    /\ prev_received > 0
    /\ received > 0
    /\ received # prev_received
    /\ bytes_acc = prev_received

\* C14: a call of accumulate_bytes_for whose deadline is not after its start
\* makes no read attempt, leaves accumulated_bytes as it is and returns an
\* elapsed time of zero.
C14_PassedDeadlineReturnsAtOnce ==
    [][(pc = "acc_loop" /\ until <= acc_tsc)
          => /\ pc' \in {"set_off", "log"}
             /\ accumulated_bytes' = accumulated_bytes
             /\ clock' = clock
             /\ phase = "high" => high_measured' = 0
             /\ phase = "low" => low_measured' = 0]_vars

\* a LOW phase of zero length has returned: nothing was added to the bytes
\* of the HIGH phase, the measured time is zero
C14_Witness ==
    /\ ValidConfig(cfg)
    /\ pc = "log"
    /\ low = 0
    /\ low_measured = 0
    /\ high_measured > 0
    /\ accumulated_bytes > 0

\* C15: no read attempt begins at or after the deadline, and (with the clock
\* advancing) every call of accumulate_bytes_for returns to the loop.
C15_ReturnsByDeadline ==
    /\ [](pc = "get" => clock < until)
    /\ (pc = "acc_enter") ~> (pc \in {"set_off", "log"})

\* a LOW phase in which records kept arriving has returned
C15_Witness ==
    /\ ValidConfig(cfg)
    /\ pc = "log"
    /\ low > 0
    /\ low_measured >= low
    /\ received > 1

\* C16: when /dev/usbmon0 cannot be opened the process ends with a
\* diagnostic and the loop is not entered: nothing is drained or
\* accumulated, no LED state is requested.
C16_OpenFailureIsFatal ==
    /\ fd = -1 => /\ pc \in {"main", "exit"}
                  /\ led = "Unset"
                  /\ pin = "Unset"
                  /\ phase = "none"
                  /\ accumulated_bytes = 0
                  /\ received = 0
    /\ pc = "exit" => (fd = -1 /\ cerr # "")

\* the process has ended on the failed open
C16_Witness == pc = "exit" /\ fd = -1 /\ cerr # "" /\ led = "Unset"

\* C17: a read attempt that times out, or reads a number of bytes other
\* than 48, leaves accumulated_bytes as it is and is no error: nothing is
\* written to cerr and accumulate_bytes_for is back at its loop test.
C17_TimeoutAndShortReadIgnored ==
    [][(pc = "get" /\ attempt' \in {"timeout", "short"})
          => /\ accumulated_bytes' = accumulated_bytes
             /\ cerr' = cerr
             /\ pc' = "acc_loop"]_vars

\* a read of the wrong size has been ignored, the bytes accumulated before
\* are kept
C17_Witness ==
    /\ ValidConfig(cfg)
    /\ pc = "acc_loop"
    /\ attempt = "short"
    /\ accumulated_bytes > 0

\* C18: the pin is HIGH exactly when (requested state is On) differs from
\* the invert flag; the durations of the iteration are those of the same
\* configuration with the other polarity.
C18_InvertSwapsLevels ==
    /\ led = "On" => pin = (IF cfg.invert THEN "LOW" ELSE "HIGH")
    /\ led = "Off" => pin = (IF cfg.invert THEN "HIGH" ELSE "LOW")
    /\ (pc = "set_on" /\ ValidConfig(cfg))
          => <<high, low>> =
                calculate_durations([cfg EXCEPT !.invert = ~cfg.invert],
                                    bytes_acc)

\* inverted: the LED is Off and the line is HIGH
C18_Witness ==
    /\ ValidConfig(cfg)
    /\ cfg.invert
    /\ led = "Off"
    /\ pin = "HIGH"

\* C19: with logging, the full-cycle time an iteration prints is the time
\* from the start of that iteration to its log statement (valid
\* configuration).
C19_LoggedCycleIsThisCycle ==
    [][(pc = "log" /\ pc' = "drain" /\ cfg.logging /\ ValidConfig(cfg))
          => log_line'.pwm = clock - tsc]_vars

\* C20: the steps of an iteration follow each other in the order drain,
\* calculate_durations, On, accumulate for high, Off, accumulate for low,
\* log, drain; On is requested when the LED is not On, Off when it is On;
\* the LED is On throughout the HIGH wait and Off throughout the LOW wait.
C20_StepOrder ==
    /\ [][pc' # pc =>
            \/ pc = "main" /\ pc' \in {"drain", "exit"}
            \/ pc = "drain" /\ pc' = "calc"
            \/ pc = "calc" /\ pc' = "set_on"
            \/ pc = "set_on" /\ pc' = "acc_enter" /\ phase' = "high"
                              /\ led' = "On"
            \/ pc = "acc_enter" /\ pc' = "acc_loop"
            \/ pc = "acc_loop" /\ pc' = "get"
            \/ pc = "get" /\ pc' = "acc_loop"
            \/ pc = "acc_loop" /\ phase = "high" /\ pc' = "set_off"
            \/ pc = "set_off" /\ pc' = "acc_enter" /\ phase' = "low"
                               /\ led' = "Off"
            \/ pc = "acc_loop" /\ phase = "low" /\ pc' = "log"
            \/ pc = "log" /\ pc' = "drain"]_vars
    /\ [](pc = "set_on" => led # "On")
    /\ [](pc = "set_off" => led = "On")
    /\ []((pc \in {"acc_enter", "acc_loop", "get"} /\ phase = "high")
            => led = "On")
    /\ []((pc \in {"acc_enter", "acc_loop", "get"} /\ phase = "low")
            => led = "Off")

\* a read attempt in the LOW wait of a later iteration, the LED is Off
C20_Witness ==
    /\ ValidConfig(cfg)
    /\ pc = "get"
    /\ phase = "low"
    /\ led = "Off"
    /\ prev_received > 0

(***************************************************************************)
(* Properties of the running loop.                                         *)
(***************************************************************************)
\* generate_led_pwm has been entered
InLoop == pc \notin {"main", "exit", "dur"}

\* C21 (checked under SpecLive): the loop has no terminal state; from every
\* state of the loop the HIGH phase is entered again and the LOW phase is
\* entered again, whatever the read attempts return.
C21_NoTerminalState ==
    /\ [](InLoop => [](pc # "exit"))
    /\ InLoop ~> (pc = "set_on")
    /\ InLoop ~> (pc = "set_off")

\* a HIGH phase of non-zero length is being entered in an iteration that
\* follows one with traffic
C21_Witness ==
    /\ ValidConfig(cfg)
    /\ pc = "acc_enter"
    /\ phase = "high"
    /\ high > 0
    /\ prev_received > 0

\* C22 (checked under Spec): a read attempt waits for no longer than the
\* time left until the deadline, so the time spent in a call of
\* accumulate_bytes_for exceeds the requested duration by no more than the
\* handling of one record (MaxJitter ticks).
C22_WaitBoundedByTimeLeft ==
    pc = "acc_loop"
        => clock - acc_tsc
              <= (IF until > acc_tsc THEN until - acc_tsc ELSE 0) + MaxJitter

\* a record read just before the deadline: the call has overrun by the
\* handling of that record
C22_Witness ==
    /\ ValidConfig(cfg)
    /\ pc = "acc_loop"
    /\ attempt \in {"S", "C"}
    /\ until > acc_tsc
    /\ clock = until + MaxJitter

\* C23 (checked under Spec): no step other than the drain lowers
\* accumulated_bytes: a read attempt that accepted a record adds the length
\* of that record, every other step leaves it as it is; the drain sets it
\* to 0.
C23_MonotoneBetweenDrains ==
    [][/\ pc # "drain"
           => \/ accumulated_bytes' = accumulated_bytes
              \/ /\ pc = "get"
                 /\ attempt' \in {"S", "C"}
                 /\ accumulated_bytes' - accumulated_bytes \in Lengths
       /\ (pc = "drain" /\ pc' # "drain") => accumulated_bytes' = 0]_vars

\* a second record has been added to the bytes of the first
C23_Witness ==
    /\ ValidConfig(cfg)
    /\ pc = "acc_loop"
    /\ attempt \in {"S", "C"}
    /\ accumulated_bytes > MaxLength

\* C24 (checked under Spec): the values drained so far and the current
\* accumulated_bytes add up to the lengths of all the records
\* get_transfered_bytes has accepted since startup.
C24_NoByteLost == unaccounted = 0

\* a later iteration: bytes have been drained before, bytes have been
\* drained by this iteration, and bytes are accumulated again
C24_Witness ==
    /\ ValidConfig(cfg)
    /\ InIteration
    /\ prev_received > 0
    /\ bytes_acc > 0
    /\ accumulated_bytes > 0
    /\ unaccounted = 0

\* C25 (checked under Spec): the elapsed time accumulate_bytes_for returns
\* is not smaller than the requested duration, and the iteration takes at
\* least the requested on + low.
C25_ElapsedAtLeastRequested ==
    /\ pc = "set_off" => high_measured >= high
    /\ pc = "log" => /\ high_measured >= high
                     /\ low_measured >= low
                     /\ clock - tsc >= (high + low) * TicksPerMs

\* an iteration with a HIGH phase of non-zero length that ran slow
C25_Witness ==
    /\ ValidConfig(cfg)
    /\ pc = "log"
    /\ high > 0
    /\ high_measured >= high
    /\ low_measured >= low
    /\ clock - tsc > (high + low) * TicksPerMs

\* C26 (checked under Spec): the first iteration drains 0, and with a valid
\* configuration it requests an on-duration of 0 and a low-duration of the
\* whole period, whatever is read meanwhile.
C26_FirstIterationIsOff ==
    (first_iteration /\ InIteration)
        => /\ bytes_acc = 0
           /\ (ValidConfig(cfg) /\ pc # "calc")
                 => (high = 0 /\ low = cfg.pwm_periode)

\* records are read in the LOW phase of the first iteration, whose
\* durations are (0, period)
C26_Witness ==
    /\ ValidConfig(cfg)
    /\ first_iteration
    /\ pc = "acc_loop"
    /\ phase = "low"
    /\ accumulated_bytes > 0
    /\ bytes_acc = 0
    /\ high = 0
    /\ low = cfg.pwm_periode

=============================================================================
